---- MODULE Spec2Model ----
(***************************************************************************)
(* Spectral visualization engine of dillthon (music-visualizer).           *)
(*                                                                         *)
(* The visualizer widgets of widgets/visualizers.py (Bar, Circle,          *)
(* Waterfall, Spectrogram, Flames) and the MainWindow code of main.py that *)
(* constructs and switches them.                                           *)
(*                                                                         *)
(* Numbers.  The code computes in IEEE doubles; the model computes in      *)
(* fixed point, every quantity an integer in a stated unit:                *)
(*   magnitudes (FFT bins, band means)    1e-3   ("milli")                 *)
(*   log-compressed band energies,                                         *)
(*   current_max and _running_max         1e-4   ("E4")                    *)
(*   normalized values, flame heights,                                     *)
(*   flicker                              1e-2   ("centi")                 *)
(* so that 1e-3 (the log offset) is 1 milli and 1e-6 (the normalization    *)
(* epsilon) is 1 after an E4 value is multiplied by 100.  Divisions round  *)
(* down.  All intermediate values stay below 2^31.                         *)
(***************************************************************************)
EXTENDS Integers, Sequences, FiniteSets, TLC

\* ------------------------------------------------------------------ bounds
\* The source's sizes, scaled down (source value in parentheses).
\* WaterfallVisualizer / SpectrogramVisualizer n_bands (40)
n_bands == 4
\* WaterfallVisualizer.history_length (100)
history_length == 3
\* SpectrogramVisualizer.n_windows (100)
n_windows == 2
\* CircleVisualizer.n_bars (40)
n_bars == 4
\* BarVisualizer: len(bar_values) (10)
n_bar_values == 3
\* FlamesVisualizer.n_flames (24)
n_flames == 2
\* calls of FlamesVisualizer.update_visualization on one widget that the
\* model follows
MaxFlameTicks == 1
\* longest spectrum handed to update_visualization (1025 for a 2048 window)
MaxBins == 3
\* largest number of frames in a batch handed to SpectrogramVisualizer
MaxFrames == 2

\* ------------------------------------------------------- program constants
min_freq == 20
max_freq == 20000
flames_min_freq == 40
flames_max_freq == 8000
default_samplerate == 44100

\* ------------------------------------------------------------ fixed point
E4 == 100 * 100

RECURSIVE FloorLog2(_)
\* floor(log2(v)) for v >= 1
FloorLog2(v) == IF v < 2 THEN 0 ELSE 1 + FloorLog2(v \div 2)

RECURSIVE Pow2(_)
Pow2(e) == IF e = 0 THEN 1 ELSE 2 * Pow2(e - 1)

\* mantissa of v in Q14: v / 2^floor(log2 v) scaled by 2^14, in [2^14, 2^15)
Mantissa(v) ==
    LET e == FloorLog2(v)
    IN  IF e >= 14 THEN v \div Pow2(e - 14) ELSE v * Pow2(14 - e)

RECURSIVE FracLog2(_, _)
\* the first `bits` fractional bits of log2(m / 2^14), m in [2^14, 2^15), by
\* repeated squaring; the result is an integer in [0, 2^bits)
FracLog2(m, bits) ==
    IF bits = 0 THEN 0
    ELSE LET sq == (m * m) \div 16384
         IN  IF sq >= 32768
             THEN Pow2(bits - 1) + FracLog2(sq \div 2, bits - 1)
             ELSE FracLog2(sq, bits - 1)

\* np.log10 of an integer v >= 1, in E4 units (rounded down, 12 fractional
\* bits of log2): log10(v) = log2(v) * log10(2), log10(2) = 0.30103
Log10E4(v) ==
    (FloorLog2(v) * 30103) \div 10 + (FracLog2(Mantissa(v), 12) * 30103) \div 40960

Max(a, b) == IF a >= b THEN a ELSE b
Min(a, b) == IF a <= b THEN a ELSE b

RECURSIVE SumBetween(_, _, _, _)
\* sum of values[k + 1] over the bin indices k of idx with lo <= k <= hi
SumBetween(values, idx, lo, hi) ==
    IF lo > hi THEN 0
    ELSE IF lo = hi THEN (IF lo \in idx THEN values[lo + 1] ELSE 0)
    ELSE LET mid == (lo + hi) \div 2
         IN  SumBetween(values, idx, lo, mid) + SumBetween(values, idx, mid + 1, hi)

\* sum of values[k + 1] over the bin indices k (0-based, as in the source) of idx
SumOver(values, idx) == SumBetween(values, idx, 0, Len(values) - 1)

RECURSIVE MaxOfSeq(_)
\* Python's max(list) / np.max(array) of a non-empty sequence
MaxOfSeq(s) ==
    IF Len(s) = 1 THEN s[1] ELSE Max(s[1], MaxOfSeq(Tail(s)))

RECURSIVE Flatten(_)
\* the entries of a matrix (a sequence of rows), row after row
Flatten(m) == IF m = <<>> THEN <<>> ELSE m[1] \o Flatten(Tail(m))

\* --------------------------------------------------------- LogBandMapper
\* np.logspace(np.log10(lo), np.log10(hi), n + 1), kept in the log domain in
\* which numpy computes it: entry i (0-based) is n * log10(edge i) in E4
\* units, n * log10(lo) + i * (log10(hi) - log10(lo)).
band_edges(n, lo, hi) ==
    [i \in 0..n |-> n * Log10E4(lo) + i * (Log10E4(hi) - Log10E4(lo))]

\* np.fft.rfftfreq(n_fft, 1.0 / samplerate)[k]: the spectrum length taken
\* for the window length
freqsOfSpectrumLength(k, n_fft, samplerate) == (k * samplerate * 10) \div n_fft

\* np.fft.rfftfreq(n_fft * 2 - 1, 1.0 / samplerate)[k] in units of 0.1 Hz:
\* k * samplerate / (2 * n_fft - 1), for k in 0 .. n_fft - 1
freqs(k, n_fft, samplerate) == (k * samplerate * 10) \div (2 * n_fft - 1)

\* (f >= lower) & (f < upper) for a frequency f in units of 0.1 Hz, decided
\* on nlogf = n * log10(f) against two entries of band_edges; a frequency
\* below 0.1 Hz is below every edge
Within(f, nlogf, lower, upper) ==
    /\ f >= 1
    /\ nlogf >= lower
    /\ nlogf < upper

\* (freqs[k] >= band_edges[i]) & (freqs[k] < band_edges[i+1]), lower and
\* upper the entries i and i + 1 of band_edges(n, lo, hi)
InBand(k, n_fft, samplerate, n, lower, upper) ==
    Within(freqs(k, n_fft, samplerate),
           n * (Log10E4(freqs(k, n_fft, samplerate)) - E4), lower, upper)

\* np.where((freqs >= lower) & (freqs < upper))[0]
BandBins(n_fft, samplerate, n, lower, upper) ==
    {k \in 0..(n_fft - 1) : InBand(k, n_fft, samplerate, n, lower, upper)}

\* np.where((freqs >= band_edges[i]) & (freqs < band_edges[i+1]))[0] for the
\* bands of np.logspace(np.log10(lo), np.log10(hi), n + 1): the table, by
\* sample rate, spectrum length n_fft and band i, of the bins in the band
Where(n, lo, hi, rates, lengths) ==
    [samplerate \in rates |-> [n_fft \in lengths |-> [i \in 0..(n - 1) |->
        BandBins(n_fft, samplerate, n,
                 band_edges(n, lo, hi)[i], band_edges(n, lo, hi)[i + 1])]]]

\* idx = idx[idx < len(samples)]
BandIdx(values, where) == {k \in where : k < Len(values)}

\* The sum of the band's magnitudes in place of their mean
BandSum(values, idx) == SumOver(values, idx)

\* np.mean(samples[idx]) for a non-empty idx, in milli units
BandMean(values, idx) == SumOver(values, idx) \div Cardinality(idx)

\* np.log10(band_energy + 1e-3), band_energy in milli units, result in E4
LogCompress(band_energy) == Log10E4(band_energy + 1) - 3 * E4

RECURSIVE GapFillBandsSkipEmpty(_, _, _, _, _)
\* A band loop that appends nothing for a band without bins
GapFillBandsSkipEmpty(values, where, n, i, prev_energy) ==
    IF i >= n THEN <<>>
    ELSE LET idx == {k \in where[i] : k < Len(values)}
         IN  (IF Cardinality(idx) > 0
              THEN <<Log10E4(SumOver(values, idx) \div Cardinality(idx) + 1) - 3 * E4>>
              ELSE <<>>)
             \o GapFillBandsSkipEmpty(values, where, n, i + 1, prev_energy)

RECURSIVE GapFillBands(_, _, _, _, _)
\* The band loop of WaterfallVisualizer and SpectrogramVisualizer, bands
\* i .. n - 1 (where[i] the bins np.where finds for band i): an empty band
\* takes prev_energy, the raw energy of the last band that had bins (0 before
\* the first such band).
GapFillBands(values, where, n, i, prev_energy) ==
    IF i >= n THEN <<>>
    ELSE LET idx == BandIdx(values, where[i])
             band_energy == IF Cardinality(idx) > 0
                            THEN BandMean(values, idx)
                            ELSE prev_energy
         IN  <<LogCompress(band_energy)>>
             \o GapFillBands(values, where, n, i + 1, band_energy)

RECURSIVE ZeroFillBands(_, _, _, _)
\* The band loop of BarVisualizer, CircleVisualizer and FlamesVisualizer,
\* bands i .. n - 1: an empty band has energy 0.
ZeroFillBands(values, where, n, i) ==
    IF i >= n THEN <<>>
    ELSE LET idx == BandIdx(values, where[i])
             band_energy == IF Cardinality(idx) > 0
                            THEN BandMean(values, idx)
                            ELSE 0
         IN  <<LogCompress(band_energy)>>
             \o ZeroFillBands(values, where, n, i + 1)

\* ----------------------------------------------------- AdaptiveNormalizer
\* Decay by 0.9 instead of 0.95
DecayNinety(running_max) == (running_max * 90) \div 100

\* self._running_max * 0.95
Decay(running_max) == (running_max * 95) \div 100

\* A running max that never decays: max(self._running_max, current_max)
RunningMaxNoDecay(running_max, current_max) == Max(running_max, current_max)

\* A running max that takes the peak only when it exceeds the undecayed
\* running max, and decays otherwise
RunningMaxUndecayedTest(running_max, current_max) ==
    IF current_max > running_max THEN current_max ELSE (running_max * 95) \div 100

\* self._running_max = max(self._running_max * 0.95, current_max)
RunningMax(running_max, current_max) == Max(Decay(running_max), current_max)

\* b / (self._running_max + 1e-6) in centi units: b and running_max are E4,
\* so the denominator is running_max * 100 + 1 in units of 1e-6
Norm(b, running_max) == (b * 100 * 100) \div (running_max * 100 + 1)

\* Clamp without its lower bound: min(1.0, x)
ClampNoFloor(x, floor) == Min(100, x)

\* min(1.0, max(floor, x)) / np.clip(x, floor, 1.0), centi units
Clamp(x, floor) == Min(100, Max(floor, x))

\* ----------------------------------------------------------- FlameOverlay
\* np.sin of an angle in centi-radians (pi = 314, 2 pi = 628), result in
\* milli units, by Bhaskara's rational approximation
\* sin x = 16 x (pi - x) / (5 pi^2 - 4 x (pi - x)) on [0, pi].
Sin(angle) ==
    LET a == angle % 628
        x == IF a < 314 THEN a ELSE a - 314
        p == x * (314 - x)
        half == (16000 * p) \div (5 * 314 * 314 - 4 * p)
    IN  IF a < 314 THEN half ELSE 0 - half

\* A flicker update that adds the weighted draw to the undamped old value
FlickerUndamped(flame_flicker, draw) ==
    [i \in 1..Len(flame_flicker) |-> flame_flicker[i] + (3 * draw[i]) \div 10]

\* 0.7 * self.flame_flicker + 0.3 * np.random.uniform(0.2, 0.5, n_flames),
\* elementwise, centi units; draw is this tick's vector of random draws
Flicker(flame_flicker, draw) ==
    [i \in 1..Len(flame_flicker) |-> (7 * flame_flicker[i] + 3 * draw[i]) \div 10]

\* wave = 0.15 * np.sin(self.phase + self.flame_waves[i] + i * 0.5), centi
\* units; i is the 0-based flame index, angles are centi-radians
Wave(phase, flame_waves, i) ==
    (15 * Sin(phase + flame_waves[i + 1] + i * 50)) \div 1000

\* A height without the lower clip: min(1.0, ...)
FlameHeightNoFloor(flicker, norm, wave) ==
    Min(100, flicker + (norm * 12) \div 10 + wave)

\* A height computed from the normalized value clamped into [0.0, 1.0]
FlameHeightClampedNorm(flicker, norm, wave) ==
    Min(100, Max(5, flicker + (Min(100, Max(0, norm)) * 12) \div 10 + wave))

\* self.phase = 0.2 in place of self.phase += 0.2
AdvancePhaseAssign(phase) == 20

\* self.phase += 0.2 (centi-radians)
AdvancePhase(phase) == phase + 20

\* np.clip(self.flame_flicker[i] + norm * 1.2 + wave, 0.05, 1.0)
FlameHeight(flicker, norm, wave) ==
    Min(100, Max(5, flicker + (norm * 12) \div 10 + wave))

\* ------------------------------------------------------------ input sets
\* FFT magnitudes (milli units): silence, 9.5 and 100.0
Mags == {0, 9500, 100000}
\* sample rates of audio files (Hz)
Samplerates == {8000, 44100}
\* values np.random.uniform(0.2, 0.5) can return (centi units)
FlickerDraws == {20, 50}
\* values np.random.uniform(0, 2 * np.pi) can return (centi-radians)
WaveDraws == {0, 314}

\* sample rates of the short audio files of the player model (Hz): at these
\* rates a millisecond of playback is one or two samples
AppSamplerates == {1000, 2000}

\* the spectra of 1 .. MaxBins bins
Spectra == UNION {[1..L -> Mags] : L \in 1..MaxBins}

\* np.fft.rfft(x) of a real x of length w has w // 2 + 1 bins
RfftLen(w) == w \div 2 + 1

\* the frames of a batch: the magnitude vectors |rfft| of RfftLen(n_fft) bins
\* that are flat (every bin the same magnitude)
FlatFrames(n_fft) == {[k \in 1..RfftLen(n_fft) |-> m] : m \in Mags}

AllZero(values) == \A k \in 1..Len(values) : values[k] = 0

\* ------------------------------------------------------------------ state
VARIABLES
    bar,    \* MainWindow.bar: the active visualizer widget, a record of its
            \* attributes (cls names its class)
    win,    \* the other MainWindow attributes: visualizer_type, samplerate
            \* (0 for None)
    obs,    \* the locals of the last handler that ran: which operation,
            \* its input, band_energies, current_max, the normalized values,
            \* the widget before the call (old_bar) and the exception raised
    hist    \* history of the calls since the widget was constructed

vars == <<bar, win, obs, hist>>

\* np.zeros((rows, cols))
Zeros(rows, cols) == [r \in 1..rows |-> [c \in 1..cols |-> 0]]

\* WaterfallVisualizer.__init__
WaterfallVisualizer ==
    [cls |-> "waterfall",
     samplerate |-> default_samplerate,
     n_bands |-> n_bands,
     history_length |-> history_length,
     spectrogram |-> Zeros(history_length, n_bands),
     _running_max |-> E4]

\* SpectrogramVisualizer.__init__; spectrogram is None (none) or a matrix (rows)
SpectrogramVisualizer ==
    [cls |-> "spectrogram",
     spectrogram |-> [none |-> TRUE, rows |-> <<>>],
     samplerate |-> default_samplerate,
     n_bands |-> n_bands,
     n_windows |-> n_windows,
     _running_max |-> E4]

\* BarVisualizer.__init__ (widgets/visualizers.py) and _BarVisualizer.__init__
\* (main.py): no samplerate attribute is set; samplerate 0 stands for the
\* missing attribute
BarVisualizer ==
    [cls |-> "bars",
     samplerate |-> 0,
     bar_values |-> [i \in 1..n_bar_values |-> 0],
     _running_max |-> E4]

\* CircleVisualizer.__init__
CircleVisualizer ==
    [cls |-> "circle",
     samplerate |-> default_samplerate,
     n_bars |-> n_bars,
     bar_values |-> [i \in 1..n_bars |-> 0],
     _running_max |-> E4]

\* FlamesVisualizer.__init__; flicker and waves are the two random vectors
FlamesVisualizer(flicker, waves) ==
    [cls |-> "flames",
     samplerate |-> default_samplerate,
     n_flames |-> n_flames,
     flame_heights |-> [i \in 1..n_flames |-> 0],
     flame_flicker |-> flicker,
     flame_waves |-> waves,
     phase |-> 0,
     _running_max |-> E4]

\* getattr(self, 'samplerate', 44100)
GetSamplerate(self) ==
    IF self.samplerate = 0 THEN default_samplerate ELSE self.samplerate

\* The bins of each band for the band layouts of the five widgets, for the
\* sample rates and spectrum lengths of the model.
Rates == Samplerates \cup {default_samplerate} \cup AppSamplerates
WaterfallWhere == Where(n_bands, min_freq, max_freq, Rates, 1..MaxBins)
BarWhere == Where(n_bar_values, min_freq, max_freq, Rates, 1..MaxBins)
CircleWhere == Where(n_bars, min_freq, max_freq, Rates, 1..MaxBins)
FlamesWhere == Where(n_flames, flames_min_freq, flames_max_freq, Rates, 1..MaxBins)

\* ------------------------------------------------- update_visualization
\* The result of a call: the widget after it (self), the locals
\* band_energies (one row per frame), current_max and the normalized values
\* (one row per frame), and the exception that ended the call ("none" when
\* it returned).  A call that raised leaves self as it was.
Returned(self, band_energies, current_max, norm) ==
    [self |-> self, band_energies |-> band_energies, current_max |-> current_max,
     norm |-> norm, raised |-> "none"]

Raised(self, band_energies, exception) ==
    [self |-> self, band_energies |-> band_energies, current_max |-> 0,
     norm |-> <<>>, raised |-> exception]

\* A maximum with an identity (np.max(a, initial=0)): never raises
MaxOrDefault(a) ==
    [raised |-> "none", value |-> IF a = <<>> THEN 0 ELSE MaxOfSeq(a)]

\* Python's max(band_energies) and np.max(spec): a ValueError on an empty
\* argument, else the largest entry
MaxOrRaise(a) ==
    IF a = <<>> THEN [raised |-> "ValueError", value |-> 0]
    ELSE [raised |-> "none", value |-> MaxOfSeq(a)]

\* np.roll(spectrogram, shift, axis=0): row r of the result is row
\* (r - shift) mod rows of the argument (0-based)
Roll(spectrogram, shift) ==
    LET rows == Len(spectrogram)
    IN  [r \in 1..rows |-> spectrogram[((r - 1 - shift) % rows) + 1]]

\* A push that scrolls the other way (np.roll(..., 1, axis=0)) and writes
\* the new row into the last row, losing the newest row instead of the oldest
PushRowRollDown(spectrogram, norm_bands) ==
    LET rolled == Roll(spectrogram, 1)
    IN  [rolled EXCEPT ![Len(rolled)] = norm_bands]

\* A push that writes the last row without scrolling the history
PushRowNoScroll(spectrogram, norm_bands) ==
    [spectrogram EXCEPT ![Len(spectrogram)] = norm_bands]

\* self.spectrogram = np.roll(self.spectrogram, -1, axis=0)
\* self.spectrogram[-1, :] = norm_bands
PushRow(spectrogram, norm_bands) ==
    LET rolled == Roll(spectrogram, 0 - 1)
    IN  [rolled EXCEPT ![Len(rolled)] = norm_bands]

\* [min(1.0, max(floor, b / (running_max + 1e-6))) for b in band_energies]
NormBands(band_energies, running_max, floor) ==
    [i \in 1..Len(band_energies) |-> Clamp(Norm(band_energies[i], running_max), floor)]

\* WaterfallVisualizer.update_visualization(samples), where[i] the bins
\* np.where finds for band i
WaterfallUpdateWith(self, samples, where) ==
    LET band_energies == GapFillBands(samples, where, self.n_bands, 0, 0)
        current_max == MaxOrRaise(band_energies)
        running_max == RunningMax(self._running_max, current_max.value)
        norm_bands == NormBands(band_energies, running_max, 5)
    IN  IF current_max.raised # "none"
        THEN Raised(self, <<band_energies>>, current_max.raised)
        ELSE Returned([self EXCEPT !._running_max = running_max,
                                   !.spectrogram = PushRow(self.spectrogram, norm_bands)],
                      <<band_energies>>, current_max.value, <<norm_bands>>)

\* WaterfallVisualizer.update_visualization(samples)
WaterfallUpdate(self, samples) ==
    WaterfallUpdateWith(self, samples,
                        WaterfallWhere[GetSamplerate(self)][Len(samples)])

\* BarVisualizer.update_visualization(samples) (and _BarVisualizer's, main.py)
BarUpdate(self, samples) ==
    LET band_energies == ZeroFillBands(samples, BarWhere[GetSamplerate(self)][Len(samples)],
                                       Len(self.bar_values), 0)
        current_max == MaxOrRaise(band_energies)
        running_max == RunningMax(self._running_max, current_max.value)
        norm_bands == NormBands(band_energies, running_max, 0)
    IN  IF current_max.raised # "none"
        THEN Raised(self, <<band_energies>>, current_max.raised)
        ELSE Returned([self EXCEPT !._running_max = running_max,
                                   !.bar_values = norm_bands],
                      <<band_energies>>, current_max.value, <<norm_bands>>)

\* CircleVisualizer.update_visualization(samples)
CircleUpdate(self, samples) ==
    LET band_energies == ZeroFillBands(samples, CircleWhere[GetSamplerate(self)][Len(samples)],
                                       self.n_bars, 0)
        current_max == MaxOrRaise(band_energies)
        running_max == RunningMax(self._running_max, current_max.value)
        norm_bands == NormBands(band_energies, running_max, 0)
    IN  IF current_max.raised # "none"
        THEN Raised(self, <<band_energies>>, current_max.raised)
        ELSE Returned([self EXCEPT !._running_max = running_max,
                                   !.bar_values = norm_bands],
                      <<band_energies>>, current_max.value, <<norm_bands>>)

\* SpectrogramVisualizer.update_visualization(samples) for samples of shape
\* (Len(ffts), n_fft), a 1-D array being one frame: ffts[t] stands for
\* np.abs(np.fft.rfft(samples[t])), of RfftLen(n_fft) bins.
SpectrogramUpdate(self, ffts, n_fft) ==
    LET windows == Min(self.n_windows, Len(ffts))
        spec == [t \in 1..windows |->
                    GapFillBands(ffts[t], WaterfallWhere[GetSamplerate(self)][n_fft],
                                 self.n_bands, 0, 0)]
        current_max == MaxOrRaise(Flatten(spec))
        running_max == RunningMax(self._running_max, current_max.value)
        norm_spec == [t \in 1..windows |-> NormBands(spec[t], running_max, 5)]
    IN  IF current_max.raised # "none"
        THEN Raised(self, spec, current_max.raised)
        ELSE Returned([self EXCEPT !._running_max = running_max,
                                   !.spectrogram = [none |-> FALSE, rows |-> norm_spec]],
                      spec, current_max.value, norm_spec)

\* FlamesVisualizer.update_visualization(samples); draw is the vector
\* np.random.uniform(0.2, 0.5, n_flames) of this call.  norm is not clamped.
FlamesUpdate(self, samples, draw) ==
    LET band_energies == ZeroFillBands(samples, FlamesWhere[GetSamplerate(self)][Len(samples)],
                                       self.n_flames, 0)
        current_max == MaxOrRaise(band_energies)
        running_max == RunningMax(self._running_max, current_max.value)
        flicker == Flicker(self.flame_flicker, draw)
        norm == [i \in 1..Len(band_energies) |-> Norm(band_energies[i], running_max)]
        heights == [i \in 1..self.n_flames |->
                       FlameHeight(flicker[i], norm[i],
                                   Wave(self.phase, self.flame_waves, i - 1))]
    IN  IF current_max.raised # "none"
        THEN Raised(self, <<band_energies>>, current_max.raised)
        ELSE Returned([self EXCEPT !._running_max = running_max,
                                   !.flame_flicker = flicker,
                                   !.flame_heights = heights,
                                   !.phase = AdvancePhase(self.phase)],
                      <<band_energies>>, current_max.value, <<norm>>)

\* ---------------------------------------------------------- MainWindow
\* MainWindow._setup_visualizer(visualizer_type): the new self.bar
SetupVisualizer(visualizer_type) ==
    IF visualizer_type = "waterfall" THEN WaterfallVisualizer
    ELSE IF visualizer_type = "spectrogram" THEN SpectrogramVisualizer
    ELSE BarVisualizer

\* hasattr(self.bar, 'samplerate')
HasSamplerate(self) == self.cls # "bars" \/ self.samplerate # 0

\* A switch that carries the old widget's running max into the new one
SwitchedBarKeepMax(old_bar, visualizer_type, samplerate) ==
    LET new == [SetupVisualizer(visualizer_type) EXCEPT
                    !._running_max = old_bar._running_max]
    IN  IF HasSamplerate(new) /\ samplerate # 0
        THEN [new EXCEPT !.samplerate = samplerate]
        ELSE new

\* MainWindow._on_vis_type_changed: the widget that replaces old_bar.  The
\* old widget is removed and a new one constructed; the window's samplerate
\* is passed on when the new widget has the attribute and a file was loaded.
SwitchedBar(old_bar, visualizer_type, samplerate) ==
    LET new == SetupVisualizer(visualizer_type)
    IN  IF HasSamplerate(new) /\ samplerate # 0
        THEN [new EXCEPT !.samplerate = samplerate]
        ELSE new

\* types = ['waterfall', 'spectrogram', 'bars']
types == <<"waterfall", "spectrogram", "bars">>

\* -------------------------------------------------------------- history
\* calls of update_visualization on one widget that the model follows: one
\* more than the history holds on a Waterfall widget, MaxTicks on the others
MaxTicks == 3

TickBound(self) ==
    IF self.cls = "waterfall" THEN self.history_length + 1 ELSE MaxTicks

NoCall(old_bar, op) ==
    [op |-> op, n_fft |-> 0, frames |-> 0, zero |-> FALSE, band_energies |-> <<>>,
     current_max |-> 0, norm |-> <<>>, old_bar |-> old_bar, raised |-> "none"]

Call(old_bar, op, n_fft, frames, zero, r) ==
    [op |-> op, n_fft |-> n_fft, frames |-> frames, zero |-> zero,
     band_energies |-> r.band_energies, current_max |-> r.current_max,
     norm |-> r.norm, old_bar |-> old_bar, raised |-> r.raised]

\* ticks: calls since construction; pushed: the rows the Waterfall widget
\* wrote, in order; fresh_silent: k when all k calls since construction had
\* an all-zero input and returned, else -1; loud_peak: the peak P of the last
\* call that set the running max to its peak, while only all-zero calls
\* followed it (else -1); silent_after: the number of those all-zero calls.
Fresh ==
    [ticks |-> 0, pushed |-> <<>>, fresh_silent |-> 0, loud_peak |-> 0 - 1,
     silent_after |-> 0]

AfterCall(h, old_bar, zero, r) ==
    LET snapped == r.raised = "none"
                   /\ r.current_max * 100 > old_bar._running_max * 95
        silent == r.raised = "none" /\ zero
    IN  [ticks |-> h.ticks + 1,
         pushed |-> IF r.raised = "none" /\ old_bar.cls = "waterfall"
                    THEN Append(h.pushed, r.norm[1]) ELSE h.pushed,
         fresh_silent |-> IF silent /\ h.fresh_silent >= 0
                          THEN h.fresh_silent + 1 ELSE 0 - 1,
         loud_peak |-> IF snapped THEN r.current_max
                       ELSE IF silent THEN h.loud_peak ELSE 0 - 1,
         silent_after |-> IF ~snapped /\ silent /\ h.loud_peak >= 0
                          THEN h.silent_after + 1 ELSE 0]

\* ---------------------------------------------------------------- actions
\* MainWindow.__init__: visualizer_type = 'waterfall', samplerate = None
NewWindow == [visualizer_type |-> "waterfall", samplerate |-> 0]

\* no MainWindow: the widget was constructed by another caller
NoWindow == [visualizer_type |-> "none", samplerate |-> 0]

\* The widget under study is MainWindow.bar, with MainWindow.samplerate still
\* None or already set by open_file (the state open_file leaves), ...
InitMainWindow ==
    /\ bar = SetupVisualizer(NewWindow.visualizer_type)
    /\ win \in {[NewWindow EXCEPT !.samplerate = sr] : sr \in {0} \cup Samplerates}

\* ... or a CircleVisualizer or FlamesVisualizer, which MainWindow never
\* builds, constructed by a caller that then sets its samplerate attribute
\* as MainWindow does for its widgets
InitCircle ==
    /\ bar \in {[CircleVisualizer EXCEPT !.samplerate = sr] : sr \in Samplerates}
    /\ win = NoWindow

InitFlames ==
    /\ bar \in {[FlamesVisualizer(flicker, waves) EXCEPT !.samplerate = sr] :
                    flicker \in [1..n_flames -> FlickerDraws],
                    waves \in [1..n_flames -> WaveDraws],
                    sr \in Samplerates}
    /\ win = NoWindow

Init ==
    /\ InitMainWindow \/ InitCircle \/ InitFlames
    /\ obs = NoCall(bar, "init")
    /\ hist = Fresh

\* One call of update_visualization on the widget, r its result; the widget
\* keeps the samplerate attribute it has (from its constructor, its builder
\* or _on_vis_type_changed).  At most TickBound(bar) calls are followed.
Tick(r, n_fft, frames, zero) ==
    /\ hist.ticks < TickBound(bar)
    /\ bar' = r.self
    /\ obs' = Call(bar, "update", n_fft, frames, zero, r)
    /\ hist' = AfterCall(hist, bar, zero, r)
    /\ UNCHANGED win

WaterfallTick(samples) ==
    /\ bar.cls = "waterfall"
    /\ Tick(WaterfallUpdate(bar, samples), Len(samples), 1, AllZero(samples))

BarTick(samples) ==
    /\ bar.cls = "bars"
    /\ Tick(BarUpdate(bar, samples), Len(samples), 1, AllZero(samples))

CircleTick(samples) ==
    /\ bar.cls = "circle"
    /\ Tick(CircleUpdate(bar, samples), Len(samples), 1, AllZero(samples))

FlamesTick(samples, draw) ==
    /\ bar.cls = "flames"
    /\ hist.ticks < MaxFlameTicks
    /\ Tick(FlamesUpdate(bar, samples, draw), Len(samples), 1, AllZero(samples))

\* update_visualization(samples) with a 1-D array of n_fft samples
\* (samples.ndim == 1: one frame), fft its np.abs(np.fft.rfft(samples))
SpectrogramTick(fft, n_fft) ==
    /\ bar.cls = "spectrogram"
    /\ Tick(SpectrogramUpdate(bar, <<fft>>, n_fft), n_fft, 1, AllZero(fft))

\* update_visualization(samples) with a 2-D array of Len(ffts) frames of
\* n_fft samples each
SpectrogramBatch(ffts, n_fft) ==
    /\ bar.cls = "spectrogram"
    /\ Tick(SpectrogramUpdate(bar, ffts, n_fft), n_fft, Len(ffts),
            Len(ffts) >= 1 /\ \A t \in 1..Len(ffts) : AllZero(ffts[t]))

\* the vis_selector's currentIndexChanged signal, idx the new index
OnVisTypeChanged(idx) ==
    /\ win.visualizer_type # "none"
    /\ types[idx + 1] # win.visualizer_type
    /\ win' = [win EXCEPT !.visualizer_type = types[idx + 1]]
    /\ bar' = SwitchedBar(bar, types[idx + 1], win.samplerate)
    /\ obs' = NoCall(bar, "switch")
    /\ hist' = Fresh

Next ==
    \/ \E samples \in Spectra : WaterfallTick(samples)
    \/ \E samples \in Spectra : BarTick(samples)
    \/ \E samples \in Spectra : CircleTick(samples)
    \/ \E samples \in Spectra, draw \in [1..n_flames -> FlickerDraws] :
          FlamesTick(samples, draw)
    \/ \E n_fft \in 1..MaxBins : \E fft \in [1..RfftLen(n_fft) -> Mags] :
          SpectrogramTick(fft, n_fft)
    \/ \E n_fft \in 1..MaxBins, frames \in 0..MaxFrames :
          \E ffts \in [1..frames -> FlatFrames(n_fft)] :
              SpectrogramBatch(ffts, n_fft)
    \/ \E idx \in 0..2 : OnVisTypeChanged(idx)

Spec == Init /\ [][Next]_vars

\* ================================================================ claims
\* a call of update_visualization returned
Updated == obs.op = "update" /\ obs.raised = "none"

\* the widgets that clamp their normalized values, and their floor (centi)
Clamping == {"bars", "circle", "waterfall", "spectrogram"}
Floor(cls) == IF cls \in {"bars", "circle"} THEN 0 ELSE 5

\* the running max before and after the last call, and the frame's peak
\* recomputed from the band energies of the call
OldMax == obs.old_bar._running_max
NewMax == bar._running_max
Peak == MaxOfSeq(Flatten(obs.band_energies))
DecayedOld == (OldMax * 95) \div 100

AllNorm(P(_)) ==
    \A t \in 1..Len(obs.norm) : \A i \in 1..Len(obs.norm[t]) : P(obs.norm[t][i])

\* C1 (as amended): in Bar, Circle, Waterfall and Spectrogram every
\* normalized band value a tick produces lies in [floor, 1.0], floor 0.0 for
\* Bar and Circle and 0.05 for Waterfall and Spectrogram, whatever the
\* magnitudes (zero or large) and whatever ticks came before.
C1_NormalizedInRange ==
    (Updated /\ bar.cls \in Clamping) =>
        LET InRange(v) == Floor(bar.cls) <= v /\ v <= 100
        IN  AllNorm(InRange)

\* C1 witness: a Waterfall tick on a loud frame (peak above 1.5) after which
\* one band sits at the floor and another strictly inside the range
C1_Witness ==
    /\ Updated /\ bar.cls = "waterfall" /\ obs.current_max > 15000
    /\ \E i \in 1..n_bands : obs.norm[1][i] = 5
    /\ \E i \in 1..n_bands : obs.norm[1][i] > 5 /\ obs.norm[1][i] < 100

\* C1 as stated: the same for every visualizer, Flames included (its norm
\* held against the widest of the ranges, [0.0, 1.0])
C1_AllVisualizersInRange ==
    Updated =>
        LET lo == IF bar.cls \in Clamping THEN Floor(bar.cls) ELSE 0
            InRange(v) == lo <= v /\ v <= 100
        IN  AllNorm(InRange)

\* C2: on every tick the new running max is max(0.95 * old, peak), peak the
\* largest log-compressed band energy of the frame; it is >= the old one
\* only if the peak exceeds the decayed old one, and otherwise it is exactly
\* 0.95 * old.
C2_RunningMaxUpdate ==
    Updated =>
        /\ NewMax = (IF DecayedOld >= Peak THEN DecayedOld ELSE Peak)
        /\ (NewMax >= OldMax => Peak > DecayedOld)
        /\ (Peak <= DecayedOld => NewMax = DecayedOld)

\* C2 witness: a tick that set the running max to its peak, followed by a
\* tick on which it decayed
C2_Witness ==
    /\ Updated /\ hist.loud_peak >= 0 /\ hist.silent_after >= 1
    /\ NewMax = DecayedOld /\ NewMax < OldMax

\* C3: the Waterfall history always has history_length rows, and once
\* history_length rows were pushed its rows are the last history_length
\* pushed rows in push order, the newest last.
C3_WaterfallFifo ==
    bar.cls = "waterfall" =>
        /\ Len(bar.spectrogram) = history_length
        /\ Len(hist.pushed) >= history_length =>
              \A r \in 1..history_length :
                  bar.spectrogram[r] =
                      hist.pushed[Len(hist.pushed) - history_length + r]

\* C3 witness: more rows pushed than the history holds, all different
C3_Witness ==
    /\ bar.cls = "waterfall"
    /\ Len(hist.pushed) > history_length
    /\ \A a, b \in 1..Len(hist.pushed) : a # b => hist.pushed[a] # hist.pushed[b]

\* the number of bands of a widget
NBands(self) ==
    IF self.cls = "bars" THEN Len(self.bar_values)
    ELSE IF self.cls = "circle" THEN self.n_bars
    ELSE IF self.cls = "flames" THEN self.n_flames
    ELSE self.n_bands

\* C4: for every visualizer and every spectrum of length >= 1, the
\* degenerate length 1 included, the band loop returns without raising and
\* produces exactly nBands band energies per frame.
C4_BandCount ==
    (obs.op = "update" /\ obs.frames >= 1 /\ obs.n_fft >= 1) =>
        /\ obs.raised = "none"
        /\ Len(obs.band_energies) >= 1
        /\ \A t \in 1..Len(obs.band_energies) :
              Len(obs.band_energies[t]) = NBands(obs.old_bar)

\* C4 witness: a Waterfall tick on a spectrum of length 1
C4_Witness ==
    /\ obs.op = "update" /\ obs.n_fft = 1 /\ obs.frames = 1
    /\ bar.cls = "waterfall" /\ Len(obs.band_energies[1]) = n_bands

\* C5: after a switch of the visualization mode the widget is a fresh one of
\* the chosen type: running max 1.0, an all-zero history (Waterfall), no
\* matrix (Spectrogram), all-zero bars (Bars).
C5_SwitchResets ==
    obs.op = "switch" =>
        /\ bar.cls = win.visualizer_type
        /\ bar._running_max = 10000
        /\ bar.cls = "waterfall" =>
              /\ Len(bar.spectrogram) = history_length
              /\ \A r \in 1..history_length : \A c \in 1..n_bands :
                    bar.spectrogram[r][c] = 0
        /\ bar.cls = "spectrogram" => bar.spectrogram.none
        /\ bar.cls = "bars" =>
              \A i \in 1..Len(bar.bar_values) : bar.bar_values[i] = 0

\* C5 witness: a switch away from a Waterfall whose running max and history
\* had changed
C5_Witness ==
    /\ obs.op = "switch"
    /\ obs.old_bar.cls = "waterfall"
    /\ obs.old_bar._running_max # 10000
    /\ \E c \in 1..n_bands : obs.old_bar.spectrogram[history_length][c] # 0

\* the upper band edge a widget maps to
MaxFreq(self) == IF self.cls = "flames" THEN flames_max_freq ELSE max_freq

\* C6: a configuration whose maxFreq exceeds the Nyquist frequency of the
\* sample rate is rejected when the widget is configured, so no frame is
\* ever processed with it.
C6_NoFrameAboveNyquist ==
    Updated => 2 * MaxFreq(obs.old_bar) <= GetSamplerate(obs.old_bar)

\* C7: the Spectrogram batch entry point called with zero frames ends in an
\* error and leaves the widget (running max and matrix) as it was.
C7_EmptyBatchRaises ==
    (obs.op = "update" /\ obs.old_bar.cls = "spectrogram" /\ obs.frames = 0) =>
        /\ obs.raised # "none"
        /\ bar._running_max = obs.old_bar._running_max
        /\ bar.spectrogram = obs.old_bar.spectrogram

\* C7 witness: a zero-frame batch given to a Spectrogram that holds a matrix
\* and a running max other than 1.0
C7_Witness ==
    /\ obs.op = "update" /\ obs.frames = 0
    /\ bar.cls = "spectrogram"
    /\ ~bar.spectrogram.none
    /\ bar._running_max # 10000

RECURSIVE Times95(_, _)
\* x * 0.95^k, E4 units, each factor rounded down as the model's ticks round
Times95(x, k) == IF k = 0 THEN x ELSE Times95((x * 95) \div 100, k - 1)

\* C8: k >= 1 all-zero spectra fed to a fresh visualizer: no tick raises,
\* every normalized band is the widget's floor on every tick, and the
\* running max after tick k is 0.95^k > 0.
C8_SilentFromFresh ==
    /\ (obs.op = "update" /\ obs.zero) => obs.raised = "none"
    /\ hist.fresh_silent >= 1 =>
          /\ Updated
          /\ bar._running_max = Times95(10000, hist.fresh_silent)
          /\ bar._running_max > 0
          /\ bar.cls \in Clamping =>
                LET AtFloor(v) == v = Floor(bar.cls)
                IN  AllNorm(AtFloor)

\* C8 witness: a Bar widget after MaxTicks silent ticks
C8_Witness ==
    /\ bar.cls = "bars"
    /\ hist.fresh_silent = MaxTicks
    /\ bar._running_max < 10000

\* C9: a tick that set the running max to its peak P, followed by k ticks
\* of all-zero spectra, leaves the running max at P * 0.95^k.
C9_LoudThenSilent ==
    hist.loud_peak >= 0 =>
        bar._running_max = Times95(hist.loud_peak, hist.silent_after)

\* C9 witness: a loud frame (peak above 1.0) and two silent ticks after it
C9_Witness ==
    /\ hist.loud_peak > 10000
    /\ hist.silent_after >= 2
    /\ bar._running_max < hist.loud_peak

\* C10 (as amended): on every tick the running max is set to the frame's
\* peak exactly when the peak exceeds the decayed running max 0.95 * old,
\* and otherwise becomes exactly 0.95 * old; a frame whose peak does not
\* exceed the current running max never raises it.
C10_PeakAgainstDecayedMax ==
    Updated =>
        /\ Peak > DecayedOld => NewMax = Peak
        /\ Peak <= DecayedOld => (NewMax = DecayedOld /\ NewMax # Peak)
        /\ Peak <= OldMax => NewMax <= OldMax

\* C10 witness: a peak between the decayed and the undecayed running max
C10_Witness ==
    /\ Updated
    /\ Peak > DecayedOld /\ Peak <= OldMax
    /\ NewMax = Peak

\* C10 as stated: the peak is taken exactly when it exceeds the current
\* (undecayed) running max; a peak that does not leaves 0.95 * old.
C10_PeakAgainstUndecayedMax ==
    Updated =>
        /\ Peak > OldMax => NewMax = Peak
        /\ Peak <= OldMax => NewMax = DecayedOld

\* ============================================== two widgets, the same frames
\* Two widgets of one class, constructed alike and handed the same frames, each
\* call with its own results of np.random; the frames are kept in obs.

\* calls on the two widgets that the model follows
MaxTwinTicks == 2

\* the arguments update_visualization is called with: the array samples and,
\* for SpectrogramVisualizer (which takes the FFT itself), n_fft, the length
\* of the window whose np.abs(np.fft.rfft(...)) samples stands for
Frames(self) ==
    IF self.cls = "spectrogram"
    THEN UNION {{[samples |-> fft, n_fft |-> n_fft] :
                    fft \in [1..RfftLen(n_fft) -> Mags]} : n_fft \in 1..MaxBins}
    ELSE {[samples |-> samples, n_fft |-> Len(samples)] : samples \in Spectra}

\* A dispatch in which every widget mixes the random draw of the call into
\* its normalized values, as FlamesVisualizer mixes it into its heights
UpdateVisualizationFlickering(self, x, draw) ==
    LET r == IF self.cls = "waterfall" THEN WaterfallUpdate(self, x.samples)
             ELSE IF self.cls = "spectrogram"
                  THEN SpectrogramUpdate(self, <<x.samples>>, x.n_fft)
             ELSE IF self.cls = "bars" THEN BarUpdate(self, x.samples)
             ELSE IF self.cls = "circle" THEN CircleUpdate(self, x.samples)
             ELSE FlamesUpdate(self, x.samples, draw)
    IN  [r EXCEPT !.norm = [t \in 1..Len(r.norm) |->
                               [i \in 1..Len(r.norm[t]) |->
                                   Min(100, r.norm[t][i] + draw[1])]]]

\* self.bar.update_visualization(fft): the method of the widget's class; draw
\* is what np.random.uniform(0.2, 0.5, n_flames) returns if the call asks
UpdateVisualization(self, x, draw) ==
    IF self.cls = "waterfall" THEN WaterfallUpdate(self, x.samples)
    ELSE IF self.cls = "spectrogram"
         THEN SpectrogramUpdate(self, <<x.samples>>, x.n_fft)
    ELSE IF self.cls = "bars" THEN BarUpdate(self, x.samples)
    ELSE IF self.cls = "circle" THEN CircleUpdate(self, x.samples)
    ELSE FlamesUpdate(self, x.samples, draw)

\* the random vectors of the twin model: all entries alike
Alike(values) == {[i \in 1..n_flames |-> v] : v \in values}

\* the widgets after construction, samplerate set by the caller
Constructed ==
    {[w EXCEPT !.samplerate = sr] :
        w \in {WaterfallVisualizer, SpectrogramVisualizer, BarVisualizer,
               CircleVisualizer}
              \cup {FlamesVisualizer(flicker, waves) :
                        flicker \in Alike(FlickerDraws), waves \in Alike(WaveDraws)},
        sr \in Samplerates}

\* obs of the twin model: the call on bar as in Call, and with it the
\* argument x, the draws and the outcome of the same call on the twin
TwinCall(old_bar, op, x, zero, r, draw, twin_r, twin_draw) ==
    [op |-> op, n_fft |-> x.n_fft, frames |-> 1, zero |-> zero,
     band_energies |-> r.band_energies, current_max |-> r.current_max,
     norm |-> r.norm, old_bar |-> old_bar, raised |-> r.raised,
     samples |-> x.samples, draw |-> draw,
     twin_norm |-> twin_r.norm, twin_raised |-> twin_r.raised,
     twin_draw |-> twin_draw]

NoTwinCall(old_bar) ==
    [op |-> "init", n_fft |-> 0, frames |-> 0, zero |-> FALSE,
     band_energies |-> <<>>, current_max |-> 0, norm |-> <<>>,
     old_bar |-> old_bar, raised |-> "none", samples |-> <<>>,
     draw |-> <<>>, twin_norm |-> <<>>, twin_raised |-> "none",
     twin_draw |-> <<>>]

InitTwin ==
    /\ bar \in Constructed
    /\ win = [visualizer_type |-> "none", samplerate |-> 0, twin |-> bar]
    /\ obs = NoTwinCall(bar)
    /\ hist = Fresh

TwinStep(x, draw, twin_draw, r, twin_r) ==
    /\ bar' = r.self
    /\ win' = [win EXCEPT !.twin = twin_r.self]
    /\ obs' = TwinCall(bar, "update", x, AllZero(x.samples), r, draw,
                       twin_r, twin_draw)
    /\ hist' = AfterCall(hist, bar, AllZero(x.samples), r)

\* one call of update_visualization on each of the two widgets, same argument
TwinTick(x, draw, twin_draw) ==
    /\ hist.ticks < (IF bar.cls = "flames" THEN MaxFlameTicks ELSE MaxTwinTicks)
    /\ TwinStep(x, draw, twin_draw, UpdateVisualization(bar, x, draw),
                UpdateVisualization(win.twin, x, twin_draw))

NextTwin ==
    \E x \in Frames(bar) : \E draw, twin_draw \in Alike(FlickerDraws) :
        TwinTick(x, draw, twin_draw)

SpecTwin == InitTwin /\ [][NextTwin]_vars

FlameSpectra == {[k \in 1..MaxBins |-> IF k = 1 THEN 0 ELSE m] : m \in Mags}

InitFlamesOnly ==
    /\ InitFlames
    /\ obs = NoCall(bar, "init")
    /\ hist = Fresh

\* FlamesVisualizer.update_visualization(samples), draw the random vector
FlamesAdvance(samples, draw) ==
    /\ bar.cls = "flames"
    /\ Tick(FlamesUpdate(bar, samples, draw), Len(samples), 1, AllZero(samples))

NextFlames ==
    \E samples \in FlameSpectra, draw \in [1..n_flames -> FlickerDraws] :
        FlamesAdvance(samples, draw)

SpecFlames == InitFlamesOnly /\ [][NextFlames]_vars

\* C12: every flame height a tick of FlamesVisualizer writes lies in
\* [0.05, 1.0], and the tick writes exactly n_flames heights.
C12_FlameHeightsInRange ==
    (Updated /\ bar.cls = "flames") =>
        /\ Len(bar.flame_heights) = bar.n_flames
        /\ \A i \in 1..Len(bar.flame_heights) :
              bar.flame_heights[i] >= 5 /\ bar.flame_heights[i] <= 100

\* C12 witness: a tick, not the first (phase and running max have moved),
\* that leaves one flame at 0.05 and another strictly inside the range
C12_Witness ==
    /\ Updated /\ bar.cls = "flames"
    /\ obs.old_bar.phase > 0 /\ obs.old_bar._running_max # 10000
    /\ \E i \in 1..n_flames : bar.flame_heights[i] = 5
    /\ \E i \in 1..n_flames : bar.flame_heights[i] > 5 /\ bar.flame_heights[i] < 100

\* band energy / (running max + 1e-6) of flame i in the last call, recomputed
\* from the call's band energies and the running max it left; not clamped
FlameNorm(i) == (obs.band_energies[1][i] * 100 * 100) \div (NewMax * 100 + 1)

\* 0.15 * sin(phase + wavePhaseOffset[i] + 0.5 * (i - 1)) with the phase the
\* widget had before the last call (i is 1-based here)
FlameWave(i) ==
    (15 * Sin(obs.old_bar.phase + bar.flame_waves[i] + (i - 1) * 50)) \div 1000

\* C18 (as amended): on every tick of FlamesVisualizer
\* height[i] = clamp(flicker[i] + 1.2 * N[i] + wave[i], 0.05, 1.0) with
\* N[i] = band energy / (running max + 1e-6) NOT clamped, flicker[i] the
\* flicker after this tick's flicker update and wave[i] computed with the
\* phase before this tick's increment.
C18_FlameHeightFormula ==
    (Updated /\ bar.cls = "flames") =>
        \A i \in 1..n_flames :
            bar.flame_heights[i] =
                Min(100, Max(5, bar.flame_flicker[i] + (FlameNorm(i) * 12) \div 10
                                + FlameWave(i)))

\* C18 witness: a tick, not the first, with a negative normalized value, a
\* flicker the tick changed and a height strictly inside the range
C18_Witness ==
    /\ Updated /\ bar.cls = "flames" /\ obs.old_bar.phase > 0
    /\ \E i \in 1..n_flames : FlameNorm(i) < 0
    /\ \E i \in 1..n_flames :
          /\ bar.flame_flicker[i] # obs.old_bar.flame_flicker[i]
          /\ bar.flame_heights[i] > 5 /\ bar.flame_heights[i] < 100

\* C18 as stated: N[i] is the normalized value already clamped into the
\* normalizer's range (here the widest, [0.0, 1.0])
C18_FlameHeightFromClampedNorm ==
    (Updated /\ bar.cls = "flames") =>
        \A i \in 1..n_flames :
            bar.flame_heights[i] =
                Min(100, Max(5, bar.flame_flicker[i]
                                + (Min(100, Max(0, FlameNorm(i))) * 12) \div 10
                                + FlameWave(i)))

\* C19: the flame phase is 0 at construction and 0.2 * n after n ticks; no
\* tick resets, lowers or wraps it.
C19_PhaseCounts ==
    bar.cls = "flames" =>
        /\ bar.phase = 20 * hist.ticks
        /\ obs.op = "update" => bar.phase = obs.old_bar.phase + 20

\* C19 witness: MaxTicks ticks done
C19_Witness ==
    /\ bar.cls = "flames"
    /\ hist.ticks = MaxTicks
    /\ bar.phase = 20 * MaxTicks

\* ------------------------------------------------- history matrix, bands
\* C13: in Waterfall and Spectrogram, whenever a history matrix exists it
\* has exactly historyDepth rows (history_length, n_windows) and nBands
\* columns; no tick or batch load changes the number of rows.
C13_HistoryShapeFixed ==
    /\ bar.cls = "waterfall" =>
          /\ Len(bar.spectrogram) = history_length
          /\ \A r \in 1..Len(bar.spectrogram) : Len(bar.spectrogram[r]) = n_bands
    /\ (bar.cls = "spectrogram" /\ ~bar.spectrogram.none) =>
          /\ Len(bar.spectrogram.rows) = n_windows
          /\ \A r \in 1..Len(bar.spectrogram.rows) :
                Len(bar.spectrogram.rows[r]) = n_bands

\* the bins np.where found for the bands of the last call (SpecTwin), and
\* those of band i (0-based) that the spectrum has
WhereUsed ==
    LET cls == obs.old_bar.cls
        sr == GetSamplerate(obs.old_bar)
    IN  IF cls \in {"waterfall", "spectrogram"} THEN WaterfallWhere[sr][obs.n_fft]
        ELSE IF cls = "bars" THEN BarWhere[sr][obs.n_fft]
        ELSE IF cls = "circle" THEN CircleWhere[sr][obs.n_fft]
        ELSE FlamesWhere[sr][obs.n_fft]

OwnBins(i) == {k \in WhereUsed[i] : k < Len(obs.samples)}

\* the log-compressed energy of band i (0-based) in the last call
Energy(i) == obs.band_energies[1][i + 1]

\* log10(m + 1e-3) for a magnitude m in milli units
LogOf(m) == Log10E4(m + 1) - 30000

\* the last call was handed a spectrum whose bins all have one positive
\* magnitude
FlatPositive ==
    /\ Updated
    /\ obs.samples[1] > 0
    /\ \A k \in 1..Len(obs.samples) : obs.samples[k] = obs.samples[1]

GapFilling == {"waterfall", "spectrogram"}

\* C14 (as amended): for a spectrum whose bins all have the same positive
\* magnitude m, every band that has a bin has energy log10(m + 1e-3); in
\* Waterfall and Spectrogram a band without bins has that energy too if some
\* lower band has a bin, and log10(1e-3) otherwise; in Bar, Circle and
\* Flames every band without bins has energy log10(1e-3).
C14_FlatSpectrumBands ==
    FlatPositive =>
        \A i \in 0..(NBands(obs.old_bar) - 1) :
            Energy(i) =
                IF \/ OwnBins(i) # {}
                   \/ /\ bar.cls \in GapFilling
                      /\ \E j \in 0..i : OwnBins(j) # {}
                THEN LogOf(obs.samples[1])
                ELSE LogOf(0)

\* C14 witness: a flat spectrum in Waterfall with an empty band below the
\* first band that has bins (two bins in it) and an empty band above it
C14_Witness ==
    /\ FlatPositive /\ bar.cls = "waterfall"
    /\ OwnBins(0) = {} /\ Energy(0) = LogOf(0)
    /\ Cardinality(OwnBins(2)) = 2
    /\ OwnBins(3) = {} /\ Energy(3) = LogOf(obs.samples[1])

\* C14 as stated: with a flat positive spectrum all band energies of the
\* tick are log10(m + 1e-3), in every visualizer
C14_FlatSpectrumAllEqual ==
    FlatPositive =>
        \A i \in 0..(NBands(obs.old_bar) - 1) : Energy(i) = LogOf(obs.samples[1])

\* C16: in every visualizer a band without bins takes the raw energy of the
\* band below it (so its log energy equals that band's), and 0 when it is
\* band 0.
C16_EmptyBandTakesPrevious ==
    Updated =>
        \A i \in 0..(NBands(obs.old_bar) - 1) :
            OwnBins(i) = {} =>
                Energy(i) = (IF i = 0 THEN LogOf(0) ELSE Energy(i - 1))

\* bin k of a spectrum of length L at the frequency k * sampleRate /
\* (2 * (L - 1)), in 0.1 Hz, and its membership of band i (0-based) of the
\* last call's layout, decided as InBand decides it
NominalFreq(k, L) == (k * GetSamplerate(obs.old_bar) * 10) \div (2 * (L - 1))

NominalInBand(k, L, i) ==
    LET n == NBands(obs.old_bar)
        lo == IF obs.old_bar.cls = "flames" THEN flames_min_freq ELSE min_freq
        hi == MaxFreq(obs.old_bar)
        f == NominalFreq(k, L)
        nlogf == n * (Log10E4(f) - E4)
    IN  /\ f >= 1
        /\ nlogf >= n * Log10E4(lo) + i * (Log10E4(hi) - Log10E4(lo))
        /\ nlogf < n * Log10E4(lo) + (i + 1) * (Log10E4(hi) - Log10E4(lo))

\* C17: for a spectrum of length L, bin k has the frequency
\* k * sampleRate / (2 * (L - 1)), the last bin the Nyquist frequency, and
\* the bins of every band are those this frequency puts there.
C17_BinFrequency ==
    (Updated /\ Len(obs.samples) >= 2) =>
        LET L == Len(obs.samples)
        IN  /\ freqs(L - 1, obs.n_fft, GetSamplerate(obs.old_bar))
                   = GetSamplerate(obs.old_bar) * 5
            /\ \A i \in 0..(NBands(obs.old_bar) - 1) :
                  OwnBins(i) = {k \in 0..(L - 1) : NominalInBand(k, L, i)}

\* ================================================== MainWindow and player
\* MainWindow with its QMediaPlayer and the 50 ms timer that feeds the
\* widget; the widget stays the WaterfallVisualizer MainWindow starts with.

\* window_size of _update_visualizer (2048)
window_size == 4
\* longest audio file, in samples
MaxAudio == 6
\* largest player position, in ms
MaxPosition == 7
\* timer ticks that process a frame, per run
MaxAppTicks == 1

\* sf.read(path) after the conversion to mono: the files of 0 .. MaxAudio
\* samples, sample k (1-based) being 0.1 * k (milli units)
AudioFiles == {[k \in 1..L |-> 100 * k] : L \in 0..MaxAudio}

\* np.cos of an angle in centi-radians, milli units
Cos(angle) == Sin(angle + 157)

RECURSIVE IsqrtIn(_, _, _)
\* the largest r in lo .. hi with r * r <= v
IsqrtIn(v, lo, hi) ==
    IF lo >= hi THEN lo
    ELSE LET mid == (lo + hi + 1) \div 2
         IN  IF mid * mid <= v THEN IsqrtIn(v, mid, hi) ELSE IsqrtIn(v, lo, mid - 1)

Isqrt(v) == IsqrtIn(v, 0, Min(v, 46340))

RECURSIVE DftSum(_, _, _, _)
\* sum over n = from .. Len(x) - 1 of x[n] * cos or sin(2 pi k n / N), N the
\* length of x; quarter = 157 selects the cosine, 0 the sine
DftSum(x, k, from, quarter) ==
    IF from >= Len(x) THEN 0
    ELSE (x[from + 1] * Sin((628 * k * from) \div Len(x) + quarter)) \div 1000
         + DftSum(x, k, from + 1, quarter)

\* np.abs(np.fft.rfft(x)): bin k (0-based) is |sum x[n] e^(-2 pi i k n / N)|
AbsRfft(x) ==
    [b \in 1..RfftLen(Len(x)) |->
        LET re == DftSum(x, b - 1, 0, 157)
            im == DftSum(x, b - 1, 0, 0)
        IN  Isqrt(re * re + im * im)]

\* A window centred on pos_samples whatever the position, zeros where it
\* reaches outside the audio on either side
WindowCentred(audio_data, pos_samples) ==
    [j \in 1..window_size |->
        LET p == pos_samples - window_size \div 2 + (j - 1)
        IN  IF p >= 0 /\ p < Len(audio_data) THEN audio_data[p + 1] ELSE 0]

\* start = max(0, pos_samples - window_size // 2)
\* end = min(len(self.audio_data), start + window_size)
\* samples = self.audio_data[start:end]
\* if len(samples) < window_size: samples = np.pad(samples, (0, ...))
Window(audio_data, pos_samples) ==
    LET start == Max(0, pos_samples - window_size \div 2)
        end == Min(Len(audio_data), start + window_size)
        samples == [j \in 1..Max(0, end - start) |-> audio_data[start + j]]
    IN  IF Len(samples) < window_size
        THEN samples \o [j \in 1..(window_size - Len(samples)) |-> 0]
        ELSE samples

\* pos_samples = int((pos_ms / 1000.0) * self.samplerate)
PosSamples(pos_ms, samplerate) == (pos_ms * samplerate) \div 1000

\* MainWindow.__init__ with the player of _setup_player: no file, stopped
NewApp ==
    [visualizer_type |-> "waterfall", samplerate |-> 0,
     file_path |-> FALSE, audio_data |-> [none |-> TRUE, data |-> <<>>],
     playing |-> FALSE, position |-> 0]

\* obs of the player model: the handler that ran last and, for the timer,
\* whether it processed a frame, what it read (audio loaded, the player
\* playing, the player position pos_ms), the window it cut and what it
\* handed on
AppObs(op, processed, pos_ms, window, fft, old_bar, r) ==
    [op |-> op, processed |-> processed, pos_ms |-> pos_ms,
     loaded |-> ~win.audio_data.none, playing |-> win.playing,
     window |-> window, fft |-> fft, old_bar |-> old_bar,
     n_fft |-> Len(fft), frames |-> IF processed THEN 1 ELSE 0,
     zero |-> processed /\ AllZero(fft),
     band_energies |-> r.band_energies, current_max |-> r.current_max,
     norm |-> r.norm, raised |-> r.raised]

InitApp ==
    /\ bar = SetupVisualizer(NewApp.visualizer_type)
    /\ win = NewApp
    /\ obs = AppObs("init", FALSE, 0, <<>>, <<>>, bar, Raised(bar, <<>>, "none"))
    /\ hist = Fresh

\* MainWindow.open_file with a path chosen: the player starts playing the
\* file from its beginning; sf.read either loads the audio or raises (loaded
\* FALSE), and then audio_data and samplerate stay as they were.  One file
\* per run.
OpenFile(data, samplerate, loaded) ==
    /\ ~win.file_path
    /\ win' = [win EXCEPT !.file_path = TRUE, !.playing = TRUE, !.position = 0,
                          !.audio_data = IF loaded THEN [none |-> FALSE, data |-> data]
                                         ELSE @,
                          !.samplerate = IF loaded THEN samplerate ELSE @]
    /\ UNCHANGED <<bar, obs, hist>>

\* MusicControls._toggle_play: player.play() or player.pause()
TogglePlay ==
    /\ win.file_path
    /\ win' = [win EXCEPT !.playing = ~@]
    /\ UNCHANGED <<bar, obs, hist>>

\* the player's position moves (playback, or setPosition after a seek)
PositionChanged(position) ==
    /\ win.file_path
    /\ position # win.position
    /\ win' = [win EXCEPT !.position = position]
    /\ UNCHANGED <<bar, obs, hist>>

\* the part of _update_visualizer under its if: cut the window, take the
\* FFT, set the widget's samplerate and call update_visualization
ProcessFrame(window, fft, r) ==
    /\ bar' = r.self
    /\ obs' = AppObs("timer", TRUE, win.position, window, fft, bar, r)
    /\ hist' = AfterCall(hist, bar, AllZero(fft), r)

\* A timer that processes a frame whenever audio is loaded, playing or not
AudioLoaded(audio_data, playing) == ~audio_data.none

\* self.audio_data is not None and
\* self.player.playbackState() == QMediaPlayer.PlaybackState.PlayingState
AudioLoadedAndPlaying(audio_data, playing) == ~audio_data.none /\ playing

\* MainWindow._update_visualizer, the timer's timeout handler; at most
\* MaxAppTicks frames are processed on one widget
UpdateVisualizer ==
    /\ UNCHANGED win
    /\ IF AudioLoadedAndPlaying(win.audio_data, win.playing)
       THEN /\ hist.ticks < MaxAppTicks
            /\ LET window == Window(win.audio_data.data,
                                 PosSamples(win.position, win.samplerate))
               IN  ProcessFrame(window, AbsRfft(window),
                                UpdateVisualization(
                                    [bar EXCEPT !.samplerate = win.samplerate],
                                    [samples |-> AbsRfft(window),
                                     n_fft |-> RfftLen(window_size)],
                                    <<>>))
       ELSE /\ obs' = AppObs("timer", FALSE, 0, <<>>, <<>>, bar,
                             Raised(bar, <<>>, "none"))
            /\ UNCHANGED <<bar, hist>>

NextApp ==
    \/ \E data \in AudioFiles, samplerate \in AppSamplerates, loaded \in BOOLEAN :
          OpenFile(data, samplerate, loaded)
    \/ TogglePlay
    \/ \E position \in 0..MaxPosition : PositionChanged(position)
    \/ UpdateVisualizer
    \/ \E idx \in 0..2 : OnVisTypeChanged(idx)

SpecApp == InitApp /\ [][NextApp]_vars

\* the audio sample at position p (0-based) of the loaded file, 0 outside it
AudioAt(p) ==
    IF p >= 0 /\ p < Len(win.audio_data.data) THEN win.audio_data.data[p + 1] ELSE 0

\* the playback position in samples at the last timer tick
TickPos == (obs.pos_ms * win.samplerate) \div 1000

\* C20 (as amended): on every timer tick that processes a frame the window
\* handed to the FFT has exactly window_size samples and covers the positions
\* start .. start + window_size - 1 with start = max(0, pos - window_size/2):
\* it is centred on the playback position only when pos >= window_size/2;
\* every window position past the end of the audio holds zero, and no zero
\* is placed before the audio's start.
C20_WindowFromClampedStart ==
    (obs.op = "timer" /\ obs.processed) =>
        /\ Len(obs.window) = window_size
        /\ \A j \in 0..(window_size - 1) :
              obs.window[j + 1] =
                  AudioAt((IF TickPos >= window_size \div 2
                           THEN TickPos - window_size \div 2 ELSE 0) + j)

\* C20 witness: a tick at a position less than half a window from the start
\* of an audio file longer than the window
C20_Witness ==
    /\ obs.op = "timer" /\ obs.processed
    /\ TickPos > 0 /\ TickPos < window_size \div 2
    /\ Len(win.audio_data.data) > window_size
    /\ obs.window[1] = AudioAt(0)

\* C20 as stated: the window covers pos - window_size/2 .. pos +
\* window_size/2 - 1, zero wherever that is outside the audio
C20_WindowCentred ==
    (obs.op = "timer" /\ obs.processed) =>
        /\ Len(obs.window) = window_size
        /\ \A j \in 0..(window_size - 1) :
              obs.window[j + 1] = AudioAt(TickPos - window_size \div 2 + j)

\* ================================================ the 1025-bin scenario
\* A WaterfallVisualizer with the source's 40 bands at 44100 Hz, handed the
\* 1025-bin spectrum of a 2048-sample window with one bin above zero.

\* WaterfallVisualizer.n_bands and window_size of _update_visualizer
source_n_bands == 40
source_window_size == 2048

ScenarioBins == RfftLen(source_window_size)

\* np.where for the 40 bands and the 1025 bins at 44100 Hz
ScenarioWhere ==
    Where(source_n_bands, min_freq, max_freq, {default_samplerate},
          {ScenarioBins})[default_samplerate][ScenarioBins]

\* the bins that get the magnitude: the lowest 8, every sixteenth bin from
\* bin 4 on (bin 500 among them) and the last one
OneBinAt == {k \in 0..(ScenarioBins - 1) : k < 8 \/ k % 16 = 4 \/ k = ScenarioBins - 1}

\* the spectrum that is zero except for magnitude m at bin k (0-based)
OneBin(k, m) ==
    [j \in 1..k |-> 0] \o <<m>> \o [j \in 1..(ScenarioBins - 1 - k) |-> 0]

ScenarioWaterfall ==
    [WaterfallVisualizer EXCEPT !.n_bands = source_n_bands,
                                !.spectrogram = Zeros(history_length, source_n_bands)]

\* obs of the scenario: the call as in Call, the spectrum given by its
\* nonzero bin and that bin's magnitude
ScenarioCall(old_bar, k, m, r) ==
    [op |-> "update", n_fft |-> ScenarioBins, frames |-> 1, zero |-> FALSE,
     band_energies |-> r.band_energies, current_max |-> r.current_max,
     norm |-> r.norm, old_bar |-> old_bar, raised |-> r.raised,
     bin |-> k, magnitude |-> m]

InitScenario ==
    /\ bar = ScenarioWaterfall
    /\ win = NoWindow
    /\ obs = NoCall(bar, "init")
    /\ hist = Fresh

ScenarioStep(k, m, r) ==
    /\ bar' = r.self
    /\ obs' = ScenarioCall(bar, k, m, r)
    /\ hist' = AfterCall(hist, bar, FALSE, r)
    /\ UNCHANGED win

\* one call of update_visualization on the fresh widget
ScenarioTick(k, m) ==
    /\ hist.ticks = 0
    /\ ScenarioStep(k, m, WaterfallUpdateWith(bar, OneBin(k, m), ScenarioWhere))

NextScenario == \E k \in OneBinAt, m \in Mags \ {0} : ScenarioTick(k, m)

SpecScenario == InitScenario /\ [][NextScenario]_vars

\* the bands whose energy is above log10(1e-3), and the bands that have bin k
Elevated == {i \in 0..(source_n_bands - 1) : obs.band_energies[1][i + 1] > 0 - 30000}
Home(k) == {i \in 0..(source_n_bands - 1) : k \in ScenarioWhere[i]}

\* C15: spectrum of length 1025 at 44100 Hz, 40 bands from 20 to 20000 Hz,
\* zero except one positive magnitude at bin 500: exactly one band is above
\* log10(1e-3), the band whose range contains bin 500's frequency (band 36,
\* 10023.7 .. 11913.2 Hz).  For the magnitude at any bin: the band that
\* contains the bin is elevated, and any other elevated band has no bins of
\* its own and follows an elevated band (gap fill).
C15_SingleBinScenario ==
    obs.op = "update" =>
        /\ obs.bin = 500 => (Elevated = {36} /\ Home(500) = {36})
        /\ Home(obs.bin) \subseteq Elevated
        /\ \A i \in Elevated \ Home(obs.bin) :
              ScenarioWhere[i] = {} /\ i - 1 \in Elevated

\* C15 witness: the scenario's tick, magnitude 9.5 at bin 500
C15_Witness ==
    /\ obs.op = "update" /\ obs.bin = 500 /\ obs.magnitude = 9500
    /\ Cardinality(Elevated) = 1

\* =========================================== running max against the bands
\* the normalized value b / (running max + 1e-6) before any clamp, recomputed
\* from the band energies of the last call and the running max it left
Unclamped(t, i) == (obs.band_energies[t][i] * 100 * 100) \div (NewMax * 100 + 1)

\* C21: in Bar, Circle, Waterfall and Spectrogram the running max is
\* strictly positive in every state, and after a tick every band energy of
\* the tick is <= the running max, every normalized value
\* band / (running max + 1e-6) is below 1.0 and the upper clamp changed
\* nothing (the stored value is max(floor, unclamped value)).
C21_BandsBelowRunningMax ==
    bar.cls \in Clamping =>
        /\ bar._running_max > 0
        /\ Updated =>
              \A t \in 1..Len(obs.band_energies) :
                  \A i \in 1..Len(obs.band_energies[t]) :
                      /\ obs.band_energies[t][i] <= NewMax
                      /\ Unclamped(t, i) < 100
                      /\ obs.norm[t][i] = Max(Floor(bar.cls), Unclamped(t, i))
                      /\ obs.norm[t][i] < 100

\* C21 witness: a tick whose peak lies between the decayed and the
\* undecayed running max and becomes the running max, the peak band just
\* below 1.0 (0.99 in hundredths)
C21_Witness ==
    /\ Updated /\ bar.cls \in Clamping
    /\ Peak > DecayedOld /\ Peak <= OldMax /\ NewMax = Peak
    /\ \E t \in 1..Len(obs.norm) : \E i \in 1..Len(obs.norm[t]) :
          obs.band_energies[t][i] = NewMax /\ obs.norm[t][i] = 99

\* ================================================= the history while it fills
\* C22: while the Waterfall widget has processed n < history_length ticks,
\* the first history_length - n rows of its history are the initial
\* all-zero rows and the last n rows are the n pushed rows in push order;
\* and in every state each history entry is 0 or lies in [0.05, 1.0].
C22_PartlyFilledHistory ==
    bar.cls = "waterfall" =>
        LET n == Len(hist.pushed)
            D == bar.history_length
        IN  /\ n < D =>
                  /\ \A r \in 1..(D - n) : \A c \in 1..bar.n_bands :
                        bar.spectrogram[r][c] = 0
                  /\ \A r \in 1..n : bar.spectrogram[D - n + r] = hist.pushed[r]
            /\ \A r \in 1..D : \A c \in 1..bar.n_bands :
                  \/ bar.spectrogram[r][c] = 0
                  \/ (5 <= bar.spectrogram[r][c] /\ bar.spectrogram[r][c] <= 100)

\* C22 witness: two different rows pushed into a history of more than two
\* rows, the first row still the initial one
C22_Witness ==
    /\ bar.cls = "waterfall"
    /\ Len(hist.pushed) = 2 /\ bar.history_length > 2
    /\ hist.pushed[1] # hist.pushed[2]
    /\ \A c \in 1..bar.n_bands : bar.spectrogram[1][c] = 0
    /\ bar.spectrogram[bar.history_length] = hist.pushed[2]

\* ============================================================ flame flicker
\* C23: every flicker value of FlamesVisualizer lies in [0.2, 0.5] in every
\* state, whatever the draws; each tick replaces it by 0.7 * old + 0.3 * r
\* for a draw r in [0.2, 0.5].
C23_FlickerInRange ==
    bar.cls = "flames" =>
        /\ Len(bar.flame_flicker) = bar.n_flames
        /\ \A i \in 1..bar.n_flames :
              /\ 20 <= bar.flame_flicker[i] /\ bar.flame_flicker[i] <= 50
              /\ Updated =>
                    \E r \in FlickerDraws :
                        bar.flame_flicker[i] =
                            (7 * obs.old_bar.flame_flicker[i] + 3 * r) \div 10

\* C23 witness: after two ticks one flame's flicker has moved strictly
\* inside the range while another's sits at the upper end
C23_Witness ==
    /\ Updated /\ bar.cls = "flames" /\ hist.ticks >= 2
    /\ \E i \in 1..n_flames :
          /\ bar.flame_flicker[i] # obs.old_bar.flame_flicker[i]
          /\ 20 < bar.flame_flicker[i] /\ bar.flame_flicker[i] < 50
    /\ \E i \in 1..n_flames : bar.flame_flicker[i] = 50

\* ===================================================== timer ticks, paused
\* C24: a timer tick taken while no audio is loaded or while the player is
\* not playing processes no frame and leaves the active visualizer as it
\* was (running max, history, bar values); a timer tick changes the
\* visualizer only when audio is loaded and the player is playing.
C24_IdleTickChangesNothing ==
    obs.op = "timer" =>
        /\ ~(obs.loaded /\ obs.playing) =>
              /\ ~obs.processed
              /\ bar = obs.old_bar
        /\ bar # obs.old_bar => (obs.loaded /\ obs.playing)

\* C24 witness: a tick with audio loaded and the player paused, on a widget
\* whose running max an earlier tick had changed
C24_Witness ==
    /\ obs.op = "timer" /\ obs.loaded /\ ~obs.playing /\ ~obs.processed
    /\ hist.ticks >= 1
    /\ bar._running_max # 10000
    /\ bar = obs.old_bar

\* ================================== MusicControls (widgets/music_player.py)
\* The seek slider of MusicControls and the player it drives.  win holds
\* _is_seeking, the slider's value (0 .. 100), and the player's duration and
\* position (ms); obs names the handler that ran last and holds win as it
\* was before the handler.

\* longest media duration, in ms
MaxDuration == 4

\* values the user can put the slider on
SliderStops == {0, 30, 50, 100}

\* int(position / 100 * duration), in exact arithmetic (the floating-point
\* product can fall just below an integer the exact product reaches)
SeekTarget(position, duration) == (position * duration) \div 100

\* An update_seek without the _is_seeking test, as MusicControls.update_seek
\* of main.py
SeekValueUnguarded(is_seeking, value, duration, pos) ==
    IF duration > 0 THEN (pos * 100) \div duration ELSE value

\* update_seek: the slider's value after the call
SeekValue(is_seeking, value, duration, pos) ==
    IF is_seeking THEN value
    ELSE IF duration > 0 THEN (pos * 100) \div duration
    ELSE value

\* _on_slider_released; sync: the player emits positionChanged inside
\* setPosition, so update_seek runs before the flag is cleared
Released(controls, sync) ==
    LET position == controls.value
        duration == controls.duration
        sought == IF duration > 0
                  THEN [controls EXCEPT !.position = SeekTarget(position, duration)]
                  ELSE controls
        updated == IF duration > 0 /\ sync
                   THEN [sought EXCEPT !.value =
                            SeekValue(sought._is_seeking, sought.value,
                                      sought.duration, sought.position)]
                   ELSE sought
    IN  [updated EXCEPT !._is_seeking = FALSE]

\* MusicControls._setup_layout with a player that has no media
NewControls == [_is_seeking |-> FALSE, value |-> 0, duration |-> 0, position |-> 0]

ControlsObs(op) == [op |-> op, old |-> win]

InitControls ==
    /\ win = NewControls
    /\ bar = BarVisualizer
    /\ obs = ControlsObs("init")
    /\ hist = Fresh

\* seek_slider.sliderPressed -> _on_slider_pressed
OnSliderPressed ==
    /\ win' = [win EXCEPT !._is_seeking = TRUE]
    /\ obs' = ControlsObs("sliderPressed")
    /\ UNCHANGED <<bar, hist>>

\* the user moves the slider to position; seek_slider.sliderMoved ->
\* _on_slider_moved, which does nothing
OnSliderMoved(position) ==
    /\ position # win.value
    /\ win' = [win EXCEPT !.value = position]
    /\ obs' = ControlsObs("sliderMoved")
    /\ UNCHANGED <<bar, hist>>

\* seek_slider.sliderReleased -> _on_slider_released
OnSliderReleased(sync) ==
    /\ win' = Released(win, sync)
    /\ obs' = ControlsObs("sliderReleased")
    /\ UNCHANGED <<bar, hist>>

\* playback moves the player's position to pos; positionChanged ->
\* update_seek
UpdateSeek(pos) ==
    /\ pos <= win.duration
    /\ win' = [win EXCEPT !.position = pos,
                          !.value = SeekValue(win._is_seeking, win.value,
                                              win.duration, pos)]
    /\ obs' = ControlsObs("update_seek")
    /\ UNCHANGED <<bar, hist>>

\* the player loads media of the given duration (0: none, or not yet known)
DurationChanged(duration) ==
    /\ duration # win.duration
    /\ win' = [win EXCEPT !.duration = duration, !.position = 0]
    /\ obs' = ControlsObs("durationChanged")
    /\ UNCHANGED <<bar, hist>>

NextControls ==
    \/ OnSliderPressed
    \/ \E position \in SliderStops : OnSliderMoved(position)
    \/ \E sync \in BOOLEAN : OnSliderReleased(sync)
    \/ \E pos \in 0..MaxDuration : UpdateSeek(pos)
    \/ \E duration \in {0, MaxDuration - 1, MaxDuration} : DurationChanged(duration)

SpecControls == InitControls /\ [][NextControls]_vars

\* C25: in MusicControls of widgets/music_player.py, for every interleaving
\* of slider presses, releases, moves and position updates: _is_seeking is
\* true after a sliderPressed, false after a sliderReleased and unchanged by
\* every other handler (so it is true exactly from a press to the next
\* release); update_seek with the flag set leaves the slider value as it
\* was; a sliderReleased sets the player position to
\* int(value / 100 * duration) when duration > 0 and leaves it otherwise.
C25_SeekFlag ==
    /\ obs.op = "init" => ~win._is_seeking
    /\ obs.op = "sliderPressed" => win._is_seeking
    /\ obs.op = "sliderReleased" =>
          /\ ~win._is_seeking
          /\ win.position = (IF obs.old.duration > 0
                             THEN (obs.old.value * obs.old.duration) \div 100
                             ELSE obs.old.position)
          /\ obs.old._is_seeking => win.value = obs.old.value
    /\ obs.op \in {"sliderMoved", "update_seek", "durationChanged"} =>
          win._is_seeking = obs.old._is_seeking
    /\ (obs.op = "update_seek" /\ obs.old._is_seeking) =>
          win.value = obs.old.value

\* C25 witness: a position update, with media loaded, while the slider is
\* held on a value other than the one the position stands for
C25_Witness ==
    /\ obs.op = "update_seek" /\ obs.old._is_seeking /\ win._is_seeking
    /\ win.duration > 0
    /\ win.position # obs.old.position
    /\ win.value # (win.position * 100) \div win.duration

====
